---- MODULE Spec2Model ----
(***************************************************************************)
(* A model of carveme/cli/benchmark.py: the benchmark() orchestration, the *)
(* biolog and essentiality comparison loops, and the label policy that     *)
(* run_essentiality_benchmark applies to the experimental gene sets.       *)
(*                                                                         *)
(* Python dicts are functions (DOMAIN = keys), Python sets are sets, the   *)
(* result lists / DataFrames are sequences of tuples.  The external        *)
(* capabilities (carve, load_cbmodel, load_media_db, pd.read_csv,          *)
(* benchmark_biolog, benchmark_essentiality, mcc) are inputs: what they    *)
(* return is drawn from bounded sets, and a prediction call may raise.     *)
(***************************************************************************)
EXTENDS Integers, Sequences, FiniteSets, TLC

VARIABLES
    pc,                    \* position inside main()/benchmark()
    args,                  \* the parsed command line (argparse namespace)
    kwargs,                \* benchmark()'s parameters rebuild, biolog, essentiality
    trace,                 \* the calls benchmark() has made so far, in order
    carve_calls,           \* build_models: org -> media handed to carve -g
    models,                \* load_models(): org -> gene identifiers of the model
    media_db,              \* load_media_db(): medium name -> compounds
    biolog_data,           \* load_biolog_data(): org -> source -> table
    df,                    \* the essentiality tables read by pd.read_csv
    essential,             \* load_essentiality_data()[0]
    non_essential,         \* load_essentiality_data()[1]
    i,                     \* cursor of the loop over organisms
    j,                     \* cursor of the loop over sources (biolog)
    biolog_results,        \* rows (org, source, met, value)
    essentiality_results,  \* rows (org, gene, value)
    calls,                 \* arguments of every prediction call made so far
    written,               \* results files written by to_csv
    error,                 \* the exception that ended the run, if any
    predictor              \* the label the external simulation predicts

vars == <<pc, args, kwargs, trace, carve_calls, models, media_db, biolog_data,
          df, essential, non_essential, i, j, biolog_results,
          essentiality_results, calls, written, error, predictor>>

----------------------------------------------------------------------------
(* Module-level configuration of benchmark.py                              *)

None == "None"

organisms == {"bsub", "ecol", "mgen", "paer", "rsol", "sone"}

\* keys of the genomes dict, in insertion order
genomes == <<"bsub", "ecol", "mgen", "paer", "rsol", "sone">>

biolog_media ==
    [bsub |-> "M9", ecol |-> "M9", paer |-> "M9", rsol |-> "M9", sone |-> "ShewMM"]

\* biolog_media.items() iterates in insertion order
biolog_media_keys == <<"bsub", "ecol", "paer", "rsol", "sone">>

essentiality_media ==
    [bsub |-> "LB", ecol |-> "M9", mgen |-> None, paer |-> "M9[succ]", sone |-> "LB"]

essentiality_media_keys == <<"bsub", "ecol", "mgen", "paer", "sone">>

biolog_sources ==
    [bsub |-> <<"C", "N", "P", "S">>,
     ecol |-> <<"C", "N", "P", "S">>,
     paer |-> <<"C">>,
     rsol |-> <<"C", "N", "P", "S">>,
     sone |-> <<"C", "N">>]

biolog_compounds ==
    [C |-> {"glc__D", "lac__D", "lac__L"},
     N |-> {"nh4"},
     P |-> {"pi"},
     S |-> {"so4"}]

----------------------------------------------------------------------------
(* Generic helpers: Python's dict and set operations                       *)

Range(s) == {s[n] : n \in 1..Len(s)}

\* d1.update(d2): the keys of d2 overwrite those of d1
DictUpdate(d1, d2) ==
    [x \in (DOMAIN d1) \cup (DOMAIN d2) |-> IF x \in DOMAIN d2 THEN d2[x] ELSE d1[x]]

\* an enumeration of a set; the order of dict.items() over it is not observed
RECURSIVE SetToSeq(_)
SetToSeq(S) ==
    IF S = {} THEN <<>>
    ELSE LET x == CHOOSE y \in S : TRUE IN <<x>> \o SetToSeq(S \ {x})

\* [(k, v) for k, v in d.items()]
Items(d) ==
    LET ks == SetToSeq(DOMAIN d) IN [n \in 1..Len(ks) |-> <<ks[n], d[ks[n]]>>]

----------------------------------------------------------------------------
(* main(): the command line                                                *)

\* the three store_true flags of the parser
ArgSpace ==
    [no_rebuild : BOOLEAN, no_biolog : BOOLEAN, no_essentiality : BOOLEAN]

\* a slip that reads the wrong flag for the biolog stage
BenchmarkKwargs_m(a) ==
    [rebuild |-> ~a.no_rebuild,
     biolog |-> ~a.no_essentiality,
     essentiality |-> ~a.no_essentiality]

\* benchmark(rebuild=(not args.no_rebuild), biolog=(not args.no_biolog),
\*           essentiality=(not args.no_essentiality))
BenchmarkKwargs(a) ==
    [rebuild |-> ~a.no_rebuild,
     biolog |-> ~a.no_biolog,
     essentiality |-> ~a.no_essentiality]

----------------------------------------------------------------------------
(* benchmark(): which statement follows which                              *)

\* if rebuild: build_models()
FirstStage(kw) == IF kw.rebuild THEN "build_models" ELSE "load_models"

\* if essentiality: ... (else the function returns)
AfterBiolog(kw) == IF kw.essentiality THEN "load_essentiality_data" ELSE "done"

\* if biolog: ...
AfterLoad(kw) == IF kw.biolog THEN "load_biolog_data" ELSE AfterBiolog(kw)

----------------------------------------------------------------------------
(* build_models(): the media handed to carve for gap filling               *)

GapfillMedia(org_id) ==
    (IF org_id \in DOMAIN biolog_media /\ biolog_media[org_id] # None
        THEN {biolog_media[org_id]} ELSE {})
    \cup
    (IF org_id \in DOMAIN essentiality_media /\ essentiality_media[org_id] # None
        THEN {essentiality_media[org_id]} ELSE {})

----------------------------------------------------------------------------
(* load_essentiality_data(): the two gene sets of one table                *)

\* 'G_' + x
Prefix(x) == "G_" \o x

\* df.query('phenotype == "<label>"')['bigg_id']
Query(table, label) ==
    {table[n].bigg_id : n \in {m \in 1..Len(table) : table[m].phenotype = label}}

\* {'G_' + x for x in df.query('phenotype == "E"')['bigg_id']}
EssentialOf(table) == {Prefix(x) : x \in Query(table, "E")}

\* {'G_' + x for x in df.query('phenotype == "NE"')['bigg_id']}
NonEssentialOf(table) == {Prefix(x) : x \in Query(table, "NE")}

----------------------------------------------------------------------------
(* run_essentiality_benchmark(): the observed labels of one organism       *)

\* {x: True for x in S}, {x: False for x in S}
Labelled(S, v) == [x \in S |-> v]

\* a variant that normalises the fallback away: unmentioned genes get no label
InVivo_n(ess, non_ess, genes) ==
    DictUpdate(Labelled(ess \cap genes, TRUE), Labelled(non_ess \cap genes, FALSE))

\* a variant without the intersection with the model's genes
InVivo_g(ess, non_ess, genes) ==
    DictUpdate(Labelled(ess, TRUE),
               IF non_ess # {} THEN Labelled(non_ess, FALSE)
               ELSE Labelled(genes \ ess, FALSE))

\* in_vivo = {x: True for x in essential[org_id] & set(model.genes)}
\* if non_essential[org_id]: in_vivo.update(... non_essential[org_id] & genes)
\* else:                     in_vivo.update(... set(model.genes) - essential)
InVivo(ess, non_ess, genes) ==
    DictUpdate(Labelled(ess \cap genes, TRUE),
               IF non_ess # {} THEN Labelled(non_ess \cap genes, FALSE)
               ELSE Labelled(genes \ ess, FALSE))

\* compounds = media_db[medium] if medium else None
NeedsMedium(medium) == medium # None

----------------------------------------------------------------------------
(* run_biolog_benchmark(): the background of one category                  *)

\* a variant that removes the carbon baseline whatever the category
Background_m(medium_compounds, source) ==
    medium_compounds \ biolog_compounds["C"]

\* compounds = set(media_db[medium]) - biolog_compounds[source]
Background(medium_compounds, source) ==
    medium_compounds \ biolog_compounds[source]

----------------------------------------------------------------------------
(* The external prediction step, as far as the comparison sees it          *)

\* benchmark_biolog(model, compounds, data): one verdict per tested compound
BiologVerdicts(data, pred) == [m \in DOMAIN data |-> (data[m] = pred)]

\* benchmark_essentiality(model, compounds, in_vivo): one verdict per gene
EssentialityVerdicts(in_vivo, pred) ==
    [g \in DOMAIN in_vivo |-> (in_vivo[g] = pred)]

\* a variant that records every row of a call twice
EssentialityRows_m(org_id, result) ==
    LET it == Items(result)
        rows == [n \in 1..Len(it) |-> <<org_id, it[n][1], it[n][2]>>]
    IN  rows \o rows

\* [(org_id, gene, res) for gene, res in result.items()]
EssentialityRows(org_id, result) ==
    LET it == Items(result)
    IN  [n \in 1..Len(it) |-> <<org_id, it[n][1], it[n][2]>>]

\* [(org_id, source, met, res) for met, res in result.items()]
BiologRows(org_id, source, result) ==
    LET it == Items(result)
    IN  [n \in 1..Len(it) |-> <<org_id, source, it[n][1], it[n][2]>>]

----------------------------------------------------------------------------
(* Inputs: what the files on disk and the external tools may hold          *)

MaxRows == 2

MediumNames == {"M9", "ShewMM", "LB", "M9[succ]"}
Compounds == {"glc__D", "lac__D", "lac__L", "nh4", "pi", "so4", "h2o"}
DefaultMedium == {"glc__D", "nh4", "pi", "so4", "h2o"}

ModelGenes == {"G_a", "G_b", "G_c"}
DefaultGenes == {"G_a", "G_b"}

BiggIds == {"a", "b"}
Phenotypes == {"E", "NE", "ND"}
TableRows == [bigg_id : BiggIds, phenotype : Phenotypes]
Tables == UNION {[1..k -> TableRows] : k \in 0..MaxRows}
DefaultTable ==
    <<[bigg_id |-> "a", phenotype |-> "E"], [bigg_id |-> "b", phenotype |-> "NE"]>>
\* a partial screen: essential genes only, one of them unknown to the models
PartialTable ==
    <<[bigg_id |-> "a", phenotype |-> "E"], [bigg_id |-> "d", phenotype |-> "E"]>>
DefaultTableOf(o) == IF o = "mgen" THEN PartialTable ELSE DefaultTable

Mets == {"ac", "fum"}
BiologTables == UNION {[D -> BOOLEAN] : D \in SUBSET Mets}
DefaultBiologTable == [m \in Mets |-> m = "ac"]

Unset == <<>>

\* one organism's model differs from the others'
ModelFamily(orgs, GS) ==
    {[o \in organisms |-> IF o = f THEN G ELSE DefaultGenes] : f \in orgs, G \in GS}

\* one organism's essentiality table differs from the others'
TableFamily(orgs, TS) ==
    {[o \in Range(essentiality_media_keys) |-> IF o = f THEN T ELSE DefaultTableOf(o)] :
        f \in orgs, T \in TS}

\* the tables that vary for the organism whose model varies
FocusTables(ms) ==
    LET varied == {o \in Range(essentiality_media_keys) : ms[o] # DefaultGenes}
    IN  TableFamily(IF varied = {} THEN Range(essentiality_media_keys) ELSE varied,
                    Tables)

\* one organism's biolog tables differ from the others'
BiologFamily(orgs, BS) ==
    {[o \in Range(biolog_media_keys) |->
        [s \in Range(biolog_sources[o]) |-> IF o = f THEN B ELSE DefaultBiologTable]] :
        f \in orgs, B \in BS}

\* one medium's compounds vary, and at most one medium is missing from the file
MediaFamily(names, XS, missing) ==
    {[m \in MediumNames \ gone |-> IF m = f THEN X ELSE DefaultMedium] :
        f \in names, X \in XS, gone \in {{}} \cup {{m} : m \in missing}}

\* the inputs of a whole run of main()
RunModels == ModelFamily(organisms, {DefaultGenes, {"G_b", "G_c"}})
RunMedia == MediaFamily({"M9"}, {DefaultMedium}, MediumNames)
RunBiolog == BiologFamily({"bsub"}, {DefaultBiologTable, <<>>})
RunTables ==
    TableFamily(Range(essentiality_media_keys),
                {DefaultTable, <<>>, <<[bigg_id |-> "a", phenotype |-> "E"]>>})

----------------------------------------------------------------------------
(* State after interpreter start-up: the command line is given             *)

NoCalls ==
    /\ carve_calls = Unset
    /\ biolog_data = Unset
    /\ df = Unset
    /\ essential = Unset
    /\ non_essential = Unset
    /\ i = 0
    /\ j = 0
    /\ biolog_results = <<>>
    /\ essentiality_results = <<>>
    /\ calls = <<>>
    /\ written = Unset
    /\ error = None

Init ==
    /\ pc = "main"
    /\ args \in ArgSpace
    /\ kwargs = [rebuild |-> TRUE, biolog |-> TRUE, essentiality |-> TRUE]
    /\ models = Unset
    /\ media_db = Unset
    /\ predictor \in BOOLEAN
    /\ trace = <<>>
    /\ NoCalls

----------------------------------------------------------------------------
(* main() and benchmark()                                                  *)

\* an uncaught exception leaves benchmark() and main(): the process ends
Raise(exc) ==
    /\ pc' = "error"
    /\ error' = exc

Main ==
    /\ pc = "main"
    /\ kwargs' = BenchmarkKwargs(args)
    /\ pc' = FirstStage(kwargs')
    /\ UNCHANGED <<args, trace, carve_calls, models, media_db, biolog_data, df,
                   essential, non_essential, i, j, biolog_results,
                   essentiality_results, calls, written, error, predictor>>

BuildModels ==
    /\ pc = "build_models"
    /\ carve_calls' = [o \in Range(genomes) |-> GapfillMedia(o)]
    /\ trace' = Append(trace, "build_models")
    /\ pc' = "load_models"
    /\ UNCHANGED <<args, kwargs, models, media_db, biolog_data, df, essential,
                   non_essential, i, j, biolog_results, essentiality_results,
                   calls, written, error, predictor>>

LoadModels(MS) ==
    /\ pc = "load_models"
    /\ models' \in MS
    /\ trace' = Append(trace, "load_models")
    /\ pc' = "load_media_db"
    /\ UNCHANGED <<args, kwargs, carve_calls, media_db, biolog_data, df, essential,
                   non_essential, i, j, biolog_results, essentiality_results,
                   calls, written, error, predictor>>

LoadMediaDb(DBS) ==
    /\ pc = "load_media_db"
    /\ media_db' \in DBS
    /\ trace' = Append(trace, "load_media_db")
    /\ pc' = AfterLoad(kwargs)
    /\ UNCHANGED <<args, kwargs, carve_calls, models, biolog_data, df, essential,
                   non_essential, i, j, biolog_results, essentiality_results,
                   calls, written, error, predictor>>

----------------------------------------------------------------------------
(* The biolog stage                                                        *)

LoadBiologData(BS) ==
    /\ pc = "load_biolog_data"
    /\ biolog_data' \in BS
    /\ trace' = Append(trace, "load_biolog_data")
    /\ pc' = "run_biolog"
    /\ i' = 1
    /\ j' = 1
    /\ biolog_results' = <<>>
    /\ UNCHANGED <<args, kwargs, carve_calls, models, media_db, df, essential,
                   non_essential, essentiality_results, calls, written, error,
                   predictor>>

\* one pass of the inner loop of run_biolog_benchmark
BiologStep ==
    /\ pc = "run_biolog"
    /\ i <= Len(biolog_media_keys)
    /\ LET org_id == biolog_media_keys[i]
           medium == biolog_media[org_id]
           source == biolog_sources[org_id][j]
           data   == biolog_data[org_id][source]
       IN  \/ /\ medium \notin DOMAIN media_db
              /\ Raise("KeyError")
              /\ UNCHANGED <<i, j, biolog_results, calls>>
           \/ /\ medium \in DOMAIN media_db
              /\ calls' = Append(calls,
                    [fn |-> "benchmark_biolog", org |-> org_id, source |-> source,
                     medium |-> medium,
                     compounds |-> Background(media_db[medium], source),
                     observed |-> data])
              /\ \/ /\ Raise("PredictionError")
                    /\ UNCHANGED <<i, j, biolog_results>>
                 \/ /\ biolog_results' = biolog_results \o
                          BiologRows(org_id, source, BiologVerdicts(data, predictor))
                    /\ IF j < Len(biolog_sources[org_id])
                          THEN i' = i /\ j' = j + 1
                          ELSE i' = i + 1 /\ j' = 1
                    /\ UNCHANGED <<pc, error>>
    /\ UNCHANGED <<args, kwargs, trace, carve_calls, models, media_db, biolog_data,
                   df, essential, non_essential, essentiality_results, written,
                   predictor>>

\* return pd.DataFrame(biolog_results, ...)
BiologReturn ==
    /\ pc = "run_biolog"
    /\ i > Len(biolog_media_keys)
    /\ trace' = Append(trace, "run_biolog_benchmark")
    /\ pc' = "biolog_to_csv"
    /\ UNCHANGED <<args, kwargs, carve_calls, models, media_db, biolog_data, df,
                   essential, non_essential, i, j, biolog_results,
                   essentiality_results, calls, written, error, predictor>>

\* df_biolog.to_csv(.../results/biolog.tsv)
BiologToCsv ==
    /\ pc = "biolog_to_csv"
    /\ written' = DictUpdate(written, [f \in {"biolog.tsv"} |-> biolog_results])
    /\ trace' = Append(trace, "biolog_to_csv")
    /\ pc' = "biolog_mcc"
    /\ UNCHANGED <<args, kwargs, carve_calls, models, media_db, biolog_data, df,
                   essential, non_essential, i, j, biolog_results,
                   essentiality_results, calls, error, predictor>>

\* value = mcc(df_biolog); print(...)
BiologMcc ==
    /\ pc = "biolog_mcc"
    /\ trace' = Append(trace, "biolog_mcc")
    /\ pc' = AfterBiolog(kwargs)
    /\ UNCHANGED <<args, kwargs, carve_calls, models, media_db, biolog_data, df,
                   essential, non_essential, i, j, biolog_results,
                   essentiality_results, calls, written, error, predictor>>

----------------------------------------------------------------------------
(* The essentiality stage                                                  *)

LoadEssentialityData(TS) ==
    /\ pc = "load_essentiality_data"
    /\ df' \in TS
    /\ essential' = [o \in Range(essentiality_media_keys) |-> EssentialOf(df'[o])]
    /\ non_essential' =
          [o \in Range(essentiality_media_keys) |-> NonEssentialOf(df'[o])]
    /\ trace' = Append(trace, "load_essentiality_data")
    /\ pc' = "run_essentiality"
    /\ i' = 1
    /\ essentiality_results' = <<>>
    /\ UNCHANGED <<args, kwargs, carve_calls, models, media_db, biolog_data, j,
                   biolog_results, calls, written, error, predictor>>

\* one pass of the loop of run_essentiality_benchmark
EssentialityStep ==
    /\ pc = "run_essentiality"
    /\ i <= Len(essentiality_media_keys)
    /\ LET org_id  == essentiality_media_keys[i]
           medium  == essentiality_media[org_id]
           in_vivo == InVivo(essential[org_id], non_essential[org_id], models[org_id])
       IN  \/ /\ NeedsMedium(medium)
              /\ medium \notin DOMAIN media_db
              /\ Raise("KeyError")
              /\ UNCHANGED <<i, essentiality_results, calls>>
           \/ /\ NeedsMedium(medium) => medium \in DOMAIN media_db
              /\ calls' = Append(calls,
                    [fn |-> "benchmark_essentiality", org |-> org_id,
                     source |-> None, medium |-> medium,
                     compounds |-> IF NeedsMedium(medium) THEN media_db[medium] ELSE None,
                     observed |-> in_vivo])
              /\ \/ /\ Raise("PredictionError")
                    /\ UNCHANGED <<i, essentiality_results>>
                 \/ /\ essentiality_results' = essentiality_results \o
                          EssentialityRows(org_id, EssentialityVerdicts(in_vivo, predictor))
                    /\ i' = i + 1
                    /\ UNCHANGED <<pc, error>>
    /\ UNCHANGED <<args, kwargs, trace, carve_calls, models, media_db, biolog_data,
                   df, essential, non_essential, j, biolog_results, written,
                   predictor>>

\* return pd.DataFrame(essentiality_results, ...)
EssentialityReturn ==
    /\ pc = "run_essentiality"
    /\ i > Len(essentiality_media_keys)
    /\ trace' = Append(trace, "run_essentiality_benchmark")
    /\ pc' = "essentiality_to_csv"
    /\ UNCHANGED <<args, kwargs, carve_calls, models, media_db, biolog_data, df,
                   essential, non_essential, i, j, biolog_results,
                   essentiality_results, calls, written, error, predictor>>

\* df_essentiality.to_csv(.../results/essentiality.tsv)
EssentialityToCsv ==
    /\ pc = "essentiality_to_csv"
    /\ written' =
          DictUpdate(written, [f \in {"essentiality.tsv"} |-> essentiality_results])
    /\ trace' = Append(trace, "essentiality_to_csv")
    /\ pc' = "essentiality_mcc"
    /\ UNCHANGED <<args, kwargs, carve_calls, models, media_db, biolog_data, df,
                   essential, non_essential, i, j, biolog_results,
                   essentiality_results, calls, error, predictor>>

\* value = mcc(df_essentiality); print(...)
EssentialityMcc ==
    /\ pc = "essentiality_mcc"
    /\ trace' = Append(trace, "essentiality_mcc")
    /\ pc' = "done"
    /\ UNCHANGED <<args, kwargs, carve_calls, models, media_db, biolog_data, df,
                   essential, non_essential, i, j, biolog_results,
                   essentiality_results, calls, written, error, predictor>>

----------------------------------------------------------------------------
(* Specifications                                                          *)

\* a whole run of main()
Next ==
    \/ Main
    \/ BuildModels
    \/ LoadModels(RunModels)
    \/ LoadMediaDb(RunMedia)
    \/ LoadBiologData(RunBiolog)
    \/ BiologStep
    \/ BiologReturn
    \/ BiologToCsv
    \/ BiologMcc
    \/ LoadEssentialityData(RunTables)
    \/ EssentialityStep
    \/ EssentialityReturn
    \/ EssentialityToCsv
    \/ EssentialityMcc

Spec == Init /\ [][Next]_vars

\* benchmark(rebuild=False, biolog=False) after its two loads: the
\* essentiality stage over every table of at most MaxRows rows
InitEss ==
    /\ pc = "load_essentiality_data"
    /\ args = [no_rebuild |-> TRUE, no_biolog |-> TRUE, no_essentiality |-> FALSE]
    /\ kwargs = BenchmarkKwargs(args)
    /\ models \in ModelFamily(Range(essentiality_media_keys), SUBSET ModelGenes)
    /\ media_db \in MediaFamily({"LB"}, {DefaultMedium, {}}, {"LB"})
    /\ predictor \in BOOLEAN
    /\ trace = <<"load_models", "load_media_db">>
    /\ NoCalls

NextEss ==
    \/ LoadEssentialityData(FocusTables(models))
    \/ EssentialityStep
    \/ EssentialityReturn

SpecEss == InitEss /\ [][NextEss]_vars

\* benchmark(rebuild=False, essentiality=False) after its two loads: the
\* biolog stage over every content of a medium
InitBiolog ==
    /\ pc = "load_biolog_data"
    /\ args = [no_rebuild |-> TRUE, no_biolog |-> FALSE, no_essentiality |-> TRUE]
    /\ kwargs = BenchmarkKwargs(args)
    /\ models \in ModelFamily({"bsub"}, {DefaultGenes})
    /\ media_db \in MediaFamily({"M9", "ShewMM"}, SUBSET Compounds, {"M9", "ShewMM"})
    /\ predictor \in BOOLEAN
    /\ trace = <<"load_models", "load_media_db">>
    /\ NoCalls

NextBiolog ==
    \/ LoadBiologData(BiologFamily({"sone"}, BiologTables))
    \/ BiologStep
    \/ BiologReturn

SpecBiolog == InitBiolog /\ [][NextBiolog]_vars

----------------------------------------------------------------------------
(* Properties                                                              *)

EssCalls == {n \in 1..Len(calls) : calls[n].fn = "benchmark_essentiality"}
BiologCalls == {n \in 1..Len(calls) : calls[n].fn = "benchmark_biolog"}

\* the organisms whose rows run_essentiality_benchmark has appended
EssProcessed ==
    IF DOMAIN essential = {} THEN {}
    ELSE {essentiality_media_keys[k] : k \in 1..(i - 1)}

\* C1: when an organism's non_essential set is empty, the observed labels
\* handed to the prediction step are True on essential & model genes, False
\* on every model gene outside essential, and nothing else; essential={A},
\* model genes={A,B,C} gives exactly {A: True, B: False, C: False}.
C1_FallbackPolicy ==
    \A n \in EssCalls :
        LET o  == calls[n].org
            iv == calls[n].observed
            E  == essential[o]
            G  == models[o]
        IN  non_essential[o] = {} =>
              /\ DOMAIN iv = (E \cap G) \cup (G \ E)
              /\ \A g \in E \cap G : iv[g] = TRUE
              /\ \A g \in G \ E : iv[g] = FALSE
              /\ (E = {"G_a"} /\ G = {"G_a", "G_b", "G_c"}) =>
                    iv = [G_a |-> TRUE, G_b |-> FALSE, G_c |-> FALSE]

\* the example of C1 has been handed to the prediction step
C1_Witness ==
    \E n \in EssCalls :
        /\ non_essential[calls[n].org] = {}
        /\ essential[calls[n].org] = {"G_a"}
        /\ models[calls[n].org] = {"G_a", "G_b", "G_c"}
        /\ DOMAIN calls[n].observed = {"G_a", "G_b", "G_c"}

\* C2: when an organism's non_essential set is non-empty, the observed labels
\* are False exactly on non_essential & model genes and True on essential &
\* model genes; a model gene in neither set gets no label.
C2_ExplicitPolicy ==
    \A n \in EssCalls :
        LET o  == calls[n].org
            iv == calls[n].observed
            E  == essential[o]
            NE == non_essential[o]
            G  == models[o]
        IN  NE # {} =>
              /\ DOMAIN iv = (E \cap G) \cup (NE \cap G)
              /\ \A g \in NE \cap G : iv[g] = FALSE
              /\ \A g \in E \cap G : iv[g] = TRUE

\* C4: in both branches every key of the observed-label map is a gene of
\* that organism's model.
C4_OnlyModelGenes ==
    \A n \in EssCalls : DOMAIN calls[n].observed \subseteq models[calls[n].org]

\* both branches have met experimental genes that the model lacks
C4_Witness ==
    /\ \E n \in EssCalls :
          /\ non_essential[calls[n].org] # {}
          /\ essential[calls[n].org] \ models[calls[n].org] # {}
          /\ non_essential[calls[n].org] \ models[calls[n].org] # {}
    /\ \E n \in EssCalls :
          /\ non_essential[calls[n].org] = {}
          /\ essential[calls[n].org] \ models[calls[n].org] # {}
          /\ calls[n].observed # <<>>

\* the rows of the table of organism o whose phenotype is neither E nor NE
UnknownRows(o) == {n \in 1..Len(df[o]) : df[o][n].phenotype \notin {"E", "NE"}}

\* the genes of o that the table mentions with a known phenotype
KnownGenes(o) ==
    {Prefix(df[o][n].bigg_id) : n \in (1..Len(df[o])) \ UnknownRows(o)}

\* C6: a gene whose rows all carry a phenotype other than E and NE is never
\* given an observed label, also when the table has no NE row.
C6_UnknownNeverLabelled ==
    \A n \in EssCalls :
        \A r \in UnknownRows(calls[n].org) :
            LET g == Prefix(df[calls[n].org][r].bigg_id)
            IN  g \notin KnownGenes(calls[n].org) => g \notin DOMAIN calls[n].observed

\* C7: the essential and non_essential sets of every organism are disjoint,
\* so no gene labelled essential is overwritten as non-essential.
C7_LabelSetsDisjoint ==
    /\ \A o \in DOMAIN essential : essential[o] \cap non_essential[o] = {}
    /\ \A n \in EssCalls :
          \A g \in essential[calls[n].org] \cap models[calls[n].org] :
              calls[n].observed[g] = TRUE

\* the genes that pass the observed-label policy of section 4.4
PolicyGenes(E, NE, G) ==
    IF NE = {} THEN G ELSE {g \in G : g \in E \/ g \in NE}

RowsOf(o) == {n \in 1..Len(essentiality_results) : essentiality_results[n][1] = o}

\* C8: the rows appended for an organism are as many as the genes passing the
\* label policy, and no (org, gene) pair occurs twice in the results.
C8_RecordCount ==
    /\ \A o \in EssProcessed :
          Cardinality(RowsOf(o)) =
              Cardinality(PolicyGenes(essential[o], non_essential[o], models[o]))
    /\ \A m, n \in 1..Len(essentiality_results) :
          (essentiality_results[m][1] = essentiality_results[n][1]
             /\ essentiality_results[m][2] = essentiality_results[n][2]) => m = n
    /\ \A n \in 1..Len(essentiality_results) :
          essentiality_results[n][1] \in EssProcessed

\* every organism is done, one of them with a gene in both label sets
C8_Witness ==
    /\ pc = "essentiality_to_csv"
    /\ Len(essentiality_results) > 0
    /\ \E o \in EssProcessed :
          essential[o] \cap non_essential[o] \cap models[o] # {}
    /\ \E o \in EssProcessed : non_essential[o] = {} /\ models[o] \ essential[o] # {}


\* the baseline sets as the claim lists them
ClaimBaseline ==
    [C |-> {"glc__D", "lac__D", "lac__L"}, N |-> {"nh4"}, P |-> {"pi"}, S |-> {"so4"}]

\* the (organism, category) pairs of the biolog configuration
ConfiguredPairs ==
    {p \in Range(biolog_media_keys) \X {"C", "N", "P", "S"} :
        p[2] \in Range(biolog_sources[p[1]])}

\* C3: for every organism and configured category the compounds handed to
\* benchmark_biolog are the base medium minus the category's baseline set,
\* by exact identifier: no baseline compound, every other compound of the
\* medium, the same whether or not the baseline was in the medium; an empty
\* background is handed on like any other.
C3_Background ==
    /\ \A n \in BiologCalls :
          LET c == calls[n]
              M == media_db[biolog_media[c.org]]
              B == ClaimBaseline[c.source]
          IN  /\ <<c.org, c.source>> \in ConfiguredPairs
              /\ c.compounds \cap B = {}
              /\ M \ B \subseteq c.compounds
              /\ c.compounds \subseteq M
              /\ c.compounds = (M \cup B) \ B
    /\ \A m, n \in BiologCalls :
          (calls[m].org = calls[n].org /\ calls[m].source = calls[n].source) => m = n
    /\ pc = "biolog_to_csv" =>
          {<<calls[n].org, calls[n].source>> : n \in BiologCalls} = ConfiguredPairs
    /\ error = "KeyError" =>
          biolog_media[biolog_media_keys[i]] \notin DOMAIN media_db

\* a medium holding part of the carbon baseline has given an empty background,
\* the run has gone on after it, and another category kept a compound
C3_Witness ==
    /\ \E n \in BiologCalls :
          /\ calls[n].source = "C"
          /\ media_db[calls[n].medium] \cap ClaimBaseline["C"] # {}
          /\ ClaimBaseline["C"] \ media_db[calls[n].medium] # {}
          /\ calls[n].compounds = {}
          /\ n < Len(calls)
    /\ \E n \in BiologCalls : calls[n].compounds # {}
    /\ Len(biolog_results) > 0

\* the run has ended, by returning from benchmark() or by an exception
Ended == pc \in {"done", "error"}

\* C5: a failure of the prediction step for one condition of one organism
\* does not end the run: the remaining categories and organisms are still
\* processed, and the records of a stage reach its results table and its MCC.
C5_PredictionFailureIsolated ==
    (Ended /\ error # "KeyError") =>
        /\ ~args.no_biolog =>
              ("biolog.tsv" \in DOMAIN written /\ "biolog_mcc" \in Range(trace))
        /\ ~args.no_essentiality =>
              ("essentiality.tsv" \in DOMAIN written
                 /\ "essentiality_mcc" \in Range(trace))

\* C9: a medium name that is not a key of the media mapping makes the step
\* fail instead of predicting with another compound set, and the failure
\* ends the run for the affected organism/category only: every organism
\* whose medium is a key, or None, is still handed to the prediction step.
C9_MissingMediumLocal ==
    /\ \A n \in 1..Len(calls) :
          NeedsMedium(calls[n].medium) => calls[n].medium \in DOMAIN media_db
    /\ (Ended /\ error # "PredictionError") =>
          /\ ~args.no_biolog =>
                \A p \in ConfiguredPairs :
                    biolog_media[p[1]] \in DOMAIN media_db =>
                        \E n \in BiologCalls :
                            calls[n].org = p[1] /\ calls[n].source = p[2]
          /\ ~args.no_essentiality =>
                \A o \in Range(essentiality_media_keys) :
                    (NeedsMedium(essentiality_media[o]) =>
                        essentiality_media[o] \in DOMAIN media_db) =>
                            \E n \in EssCalls : calls[n].org = o

Ran(e) == e \in Range(trace)
Index(e) == CHOOSE n \in 1..Len(trace) : trace[n] = e
Before(a, b) == Ran(b) => (Ran(a) /\ Index(a) < Index(b))

BiologEvents ==
    {"load_biolog_data", "run_biolog_benchmark", "biolog_to_csv", "biolog_mcc"}
EssentialityEvents ==
    {"load_essentiality_data", "run_essentiality_benchmark", "essentiality_to_csv",
     "essentiality_mcc"}

====
